---- MODULE Spec2Model ----
(***************************************************************************)
(* Model of ucs.py: a sliding-token board game (GameState, Game) with the  *)
(* three search strategies Game.dfs, Game.bfs, Game.ucs and the manual     *)
(* play loop of GameUI.                                                    *)
(*                                                                         *)
(* Cells are pairs <<row, col>> with 0-based coordinates as in the source. *)
(* Python lists are TLA+ sequences, so player index i of the source is     *)
(* index i+1 here.  A GameState snapshot is the record                     *)
(*   [players |-> sequence of cells, reached_goal |-> sequence of BOOLEAN] *)
(* Its walls and goals fields are set once in Game.__init__ and never      *)
(* assigned again, so they are kept once, in the variables walls, goals.   *)
(***************************************************************************)
EXTENDS Naturals, Integers, Sequences, FiniteSets, TLC

VARIABLES
    rows,            \* Game.rows
    cols,            \* Game.cols
    walls,           \* GameState.walls (set of cells)
    goals,           \* GameState.goals (sequence of cells, one per player)
    state,           \* Game.state, the snapshot is_valid_move reads
    pc,              \* position of the program: which function is running
    algorithm,       \* GameUI.solve_with_algorithm's argument
    stack,           \* dfs: LIFO frontier of [state, path]
    queue,           \* bfs: FIFO frontier of [state, path]
    priority_queue,  \* ucs: binary heap of [cost, state, path]
    visited,         \* set of canonical keys already expanded
    visited_states,  \* trace: every snapshot popped, in order
    nodes_visited,   \* pop counter
    solution         \* what the strategy returned

vars == <<rows, cols, walls, goals, state, pc, algorithm, stack, queue, priority_queue,
          visited, visited_states, nodes_visited, solution>>

board == <<rows, cols, walls, goals>>
search == <<stack, queue, priority_queue, visited, visited_states,
            nodes_visited, solution>>

----------------------------------------------------------------------------
(* The input boards are bounded by one size: a board has at most MaxCells  *)
(* cells (rows * cols), at most a quarter of them walls, and players on at *)
(* most a third of them (rounded up).                                      *)
MaxCells == 4
MaxWalls == MaxCells \div 4
MaxPlayers == (MaxCells + 2) \div 3

----------------------------------------------------------------------------
(* Generic helpers.                                                        *)

Cells(nr, nc) == (0 .. nr - 1) \X (0 .. nc - 1)

RECURSIVE CountTrue(_)
CountTrue(flags) ==
    IF flags = <<>> THEN 0
    ELSE (IF Head(flags) THEN 1 ELSE 0) + CountTrue(Tail(flags))

\* all(reached_goal)
AllReached(s) == \A i \in 1 .. Len(s.reached_goal) : s.reached_goal[i]

(* Variant of Directions in which the fourth direction is left again, so   *)
(* that no move to the right exists.                                       *)
Directions_NoRight == << <<-1, 0>>, <<1, 0>>, <<0, -1>>, <<0, -1>> >>

\* the four directions, in the order the strategies enumerate them
Directions == << <<-1, 0>>, <<1, 0>>, <<0, -1>>, <<0, 1>> >>

\* a strategy's "no solution" result, and a returned path
None == [found |-> FALSE, path |-> <<>>]
Found(p) == [found |-> TRUE, path |-> p]

----------------------------------------------------------------------------
(* Variant of get_state that leaves the reached flags out of the key.      *)
get_state_PositionsOnly(s) == <<s.players>>

(* Game.get_state: the canonical key of a snapshot.                        *)
get_state(s) == <<s.players, s.reached_goal>>

(* Game.is_won, on Game.state.                                             *)
is_won == AllReached(state)

(* Variant of is_valid_move without the wall test of lines 39-40.          *)
is_valid_move_NoWallTest(row, col, player_i) ==
    IF row < 0 \/ row >= rows \/ col < 0 \/ col >= cols THEN FALSE
    ELSE IF \E j \in 1 .. Len(state.players) :
                j # player_i /\ state.players[j] = <<row, col>> THEN FALSE
    ELSE IF state.reached_goal[player_i] /\ <<row, col>> # goals[player_i]
         THEN FALSE
    ELSE TRUE

(* Game.is_valid_move.  It reads self.state (the variable state), not the  *)
(* snapshot simulate_move is working on.                                   *)
is_valid_move(row, col, player_i) ==
    IF row < 0 \/ row >= rows \/ col < 0 \/ col >= cols THEN FALSE
    ELSE IF <<row, col>> \in walls THEN FALSE
    ELSE IF \E j \in 1 .. Len(state.players) :
                j # player_i /\ state.players[j] = <<row, col>> THEN FALSE
    ELSE IF state.reached_goal[player_i] /\ <<row, col>> # goals[player_i]
         THEN FALSE
    ELSE TRUE

(* Variant of Slide without the stop at the player's goal (lines 67-69).   *)
RECURSIVE Slide_NoGoalStop(_, _, _, _)
Slide_NoGoalStop(i, cur, r_row, c_col) ==
    LET next_row == cur[1] + r_row
        next_col == cur[2] + c_col
    IN  IF ~ is_valid_move(next_row, next_col, i)
        THEN [pos |-> cur, hit |-> FALSE]
        ELSE Slide_NoGoalStop(i, <<next_row, next_col>>, r_row, c_col)

(* The while loop of simulate_move (lines 58-69) for player i, started at  *)
(* cell cur: the cell where the slide stops and whether the goal was hit.  *)
RECURSIVE Slide(_, _, _, _)
Slide(i, cur, r_row, c_col) ==
    LET next_row == cur[1] + r_row
        next_col == cur[2] + c_col
    IN  IF ~ is_valid_move(next_row, next_col, i)
        THEN [pos |-> cur, hit |-> FALSE]
        ELSE IF <<next_row, next_col>> = goals[i]
             THEN [pos |-> <<next_row, next_col>>, hit |-> TRUE]
             ELSE Slide(i, <<next_row, next_col>>, r_row, c_col)

(* Variant of SimLoop without the skip of finished players (lines 53-54).  *)
RECURSIVE SimLoop_NoSkip(_, _, _, _, _)
SimLoop_NoSkip(cloned_state, i, r_row, c_col, new_states) ==
    IF i > Len(cloned_state.players) THEN new_states
    ELSE LET res == Slide(i, cloned_state.players[i], r_row, c_col)
             flagged == IF res.hit
                        THEN [cloned_state EXCEPT !.reached_goal[i] = TRUE]
                        ELSE cloned_state
             moved == [flagged EXCEPT !.players[i] = res.pos]
         IN  IF res.pos # cloned_state.players[i]
             THEN SimLoop_NoSkip(moved, i + 1, r_row, c_col,
                                 Append(new_states, moved))
             ELSE SimLoop_NoSkip(flagged, i + 1, r_row, c_col, new_states)

(* The for loop of simulate_move (lines 52-73) from player i on, with the  *)
(* working copy cloned_state and the successors collected so far.          *)
RECURSIVE SimLoop(_, _, _, _, _)
SimLoop(cloned_state, i, r_row, c_col, new_states) ==
    IF i > Len(cloned_state.players) THEN new_states
    ELSE IF cloned_state.reached_goal[i]
         THEN SimLoop(cloned_state, i + 1, r_row, c_col, new_states)
    ELSE LET res == Slide(i, cloned_state.players[i], r_row, c_col)
             flagged == IF res.hit
                        THEN [cloned_state EXCEPT !.reached_goal[i] = TRUE]
                        ELSE cloned_state
             moved == [flagged EXCEPT !.players[i] = res.pos]
         IN  IF res.pos # cloned_state.players[i]
             THEN SimLoop(moved, i + 1, r_row, c_col, Append(new_states, moved))
             ELSE SimLoop(flagged, i + 1, r_row, c_col, new_states)

(* Game.simulate_move: the list of successors of current_state.            *)
simulate_move(current_state, r_row, c_col) ==
    SimLoop(current_state, 1, r_row, c_col, <<>>)

(* Variant of ExpandFrom that leaves out the last direction, (0, 1).       *)
RECURSIVE ExpandFrom_ThreeDirections(_, _)
ExpandFrom_ThreeDirections(current_state, k) ==
    IF k > Len(Directions) - 1 THEN <<>>
    ELSE simulate_move(current_state, Directions[k][1], Directions[k][2])
         \o ExpandFrom_ThreeDirections(current_state, k + 1)

(* The successors of current_state over the four directions, in the order  *)
(* the strategies generate them (lines 97-99).                             *)
RECURSIVE ExpandFrom(_, _)
ExpandFrom(current_state, k) ==
    IF k > Len(Directions) THEN <<>>
    ELSE simulate_move(current_state, Directions[k][1], Directions[k][2])
         \o ExpandFrom(current_state, k + 1)

Expand(current_state) == ExpandFrom(current_state, 1)

----------------------------------------------------------------------------
(* The priority queue of ucs: heapq on a list of (cost, state, path).      *)

(* Variant of GameState_lt that puts the state with more reached flags   *)
(* first.                                                                  *)
GameState_lt_MoreFlagsFirst(self, other) ==
    CountTrue(self.reached_goal) > CountTrue(other.reached_goal)

(* GameState.__lt__: fewer reached flags sorts first.                      *)
GameState_lt(self, other) ==
    CountTrue(self.reached_goal) < CountTrue(other.reached_goal)

(* Variant of entry_lt that puts the larger cost first.                     *)
entry_lt_LargerCostFirst(a, b) ==
    IF a.cost # b.cost THEN a.cost > b.cost
    ELSE GameState_lt(a.state, b.state)

(* a < b on two heap entries (cost, state, path), as Python compares       *)
(* tuples: the costs, and on equal costs the two states, which are         *)
(* distinct objects without __eq__ and so are ordered by __lt__; the paths *)
(* are never compared.                                                     *)
entry_lt(a, b) ==
    IF a.cost # b.cost THEN a.cost < b.cost
    ELSE GameState_lt(a.state, b.state)

(* heapq._siftdown; positions are 0-based as in heapq, heap[p + 1] is the  *)
(* element at position p.                                                  *)
RECURSIVE SiftdownLoop(_, _, _, _)
SiftdownLoop(heap, startpos, pos, newitem) ==
    IF pos > startpos
    THEN LET parentpos == (pos - 1) \div 2
             parent == heap[parentpos + 1]
         IN  IF entry_lt(newitem, parent)
             THEN SiftdownLoop([heap EXCEPT ![pos + 1] = parent],
                               startpos, parentpos, newitem)
             ELSE [heap EXCEPT ![pos + 1] = newitem]
    ELSE [heap EXCEPT ![pos + 1] = newitem]

siftdown(heap, startpos, pos) == SiftdownLoop(heap, startpos, pos, heap[pos + 1])

(* heapq._siftup                                                           *)
RECURSIVE SiftupLoop(_, _, _, _)
SiftupLoop(heap, startpos, pos, newitem) ==
    LET endpos == Len(heap)
        childpos == 2 * pos + 1
        rightpos == childpos + 1
        smaller == IF rightpos < endpos
                      /\ ~ entry_lt(heap[childpos + 1], heap[rightpos + 1])
                   THEN rightpos ELSE childpos
    IN  IF childpos < endpos
        THEN SiftupLoop([heap EXCEPT ![pos + 1] = heap[smaller + 1]],
                        startpos, smaller, newitem)
        ELSE siftdown([heap EXCEPT ![pos + 1] = newitem], startpos, pos)

siftup(heap, pos) == SiftupLoop(heap, pos, pos, heap[pos + 1])

(* heapq.heappush                                                          *)
heappush(heap, item) == siftdown(Append(heap, item), 0, Len(heap))

(* heapq.heappop: the item returned, and the heap left behind.             *)
heappop_item(heap) == heap[1]

heappop_rest(heap) ==
    LET lastelt == heap[Len(heap)]
        rest == SubSeq(heap, 1, Len(heap) - 1)
    IN  IF rest # <<>> THEN siftup([rest EXCEPT ![1] = lastelt], 0) ELSE rest

----------------------------------------------------------------------------
(* Input boards.                                                           *)

InitialReached(n) == [i \in 1 .. n |-> FALSE]

Injective(f) == \A i, j \in DOMAIN f : i # j => f[i] # f[j]

(* Scenario A of the specification: 3x3, a wall at (0,2), one player at    *)
(* (0,0) with its goal at (0,1).                                           *)
ScenarioA ==
    [rows |-> 3, cols |-> 3, walls |-> {<<0, 2>>},
     players |-> << <<0, 0>> >>, goals |-> << <<0, 1>> >>]

(* Scenario C of the specification, with the positions of claim C8: a row  *)
(* of five cells without walls, players at (0,1) and (0,2), their goals at *)
(* the far end of the row.                                                 *)
ScenarioC ==
    [rows |-> 1, cols |-> 5, walls |-> {},
     players |-> << <<0, 1>>, <<0, 2>> >>, goals |-> << <<0, 4>>, <<0, 3>> >>]

(* The boards of the bounded family: every grid within MaxCells, players   *)
(* on pairwise distinct cells that are not walls, a goal anywhere in the   *)
(* grid for each player.                                                   *)
FamilyBoards ==
    UNION { UNION { UNION { UNION {
        { [rows |-> nr, cols |-> nc, walls |-> w, players |-> p, goals |-> g] :
            g \in [1 .. n -> Cells(nr, nc)] } :
          p \in {q \in [1 .. n -> Cells(nr, nc) \ w] : Injective(q)} } :
          n \in 1 .. MaxPlayers } :
          w \in {v \in SUBSET Cells(nr, nc) : Cardinality(v) <= MaxWalls} } :
          <<nr, nc>> \in {d \in (1 .. MaxCells) \X (1 .. MaxCells) :
                            d[1] * d[2] <= MaxCells} }

Boards == FamilyBoards \cup {ScenarioA, ScenarioC}

(* Game.__init__ on a board: every reached_goal flag starts false.         *)
Init ==
    /\ \E b \in Boards :
          /\ rows = b.rows
          /\ cols = b.cols
          /\ walls = b.walls
          /\ goals = b.goals
          /\ state = [players |-> b.players,
                      reached_goal |-> InitialReached(Len(b.players))]
    /\ pc = "run"
    /\ algorithm = "none"
    /\ stack = <<>>
    /\ queue = <<>>
    /\ priority_queue = <<>>
    /\ visited = {}
    /\ visited_states = <<>>
    /\ nodes_visited = 0
    /\ solution = None

----------------------------------------------------------------------------
(* GameUI.run: the menu.                                                   *)
run ==
    /\ pc = "run"
    /\ \E choice \in {"1", "2", "3", "4", "other"} :
          /\ pc' = CASE choice = "1" -> "play_manually"
                     [] choice = "2" -> "dfs"
                     [] choice = "3" -> "bfs"
                     [] choice = "4" -> "ucs"
                     [] OTHER -> "done"
          /\ algorithm' = CASE choice = "2" -> "DFS"
                            [] choice = "3" -> "BFS"
                            [] choice = "4" -> "UCS"
                            [] OTHER -> algorithm
    /\ UNCHANGED <<board, state, search>>

(* Game.dfs, lines 78-82: the frontier holds the initial state.            *)
dfs_init ==
    /\ pc = "dfs"
    /\ stack' = << [state |-> state, path |-> <<>>] >>
    /\ visited' = {}
    /\ visited_states' = <<>>
    /\ nodes_visited' = 0
    /\ pc' = "dfs_loop"
    /\ UNCHANGED <<board, state, algorithm, queue, priority_queue, solution>>

(* Variant of Children that pushes the parent's path unextended.           *)
Children_PathNotExtended(current_state, path) ==
    LET succ == Expand(current_state)
    IN  [k \in 1 .. Len(succ) |-> [state |-> succ[k], path |-> path]]

(* entries pushed for the successors of current_state (lines 99-100)       *)
Children(current_state, path) ==
    LET succ == Expand(current_state)
    IN  [k \in 1 .. Len(succ) |->
            [state |-> succ[k], path |-> Append(path, current_state)]]

(* Variant of dfs_step without visited.add (line 95).                      *)
dfs_step_NoVisitedAdd ==
    /\ pc = "dfs_loop"
    /\ stack # <<>>
    /\ LET top == stack[Len(stack)]
           current_state == top.state
           path == top.path
           popped == SubSeq(stack, 1, Len(stack) - 1)
       IN  /\ nodes_visited' = nodes_visited + 1
           /\ visited_states' = Append(visited_states, current_state)
           /\ IF AllReached(current_state)
              THEN /\ solution' = Found(Append(path, current_state))
                   /\ pc' = "done"
                   /\ stack' = popped
                   /\ UNCHANGED visited
              ELSE /\ stack' = popped \o Children(current_state, path)
                   /\ UNCHANGED <<visited, solution, pc>>
    /\ UNCHANGED <<board, state, algorithm, queue, priority_queue>>

(* Variant of dfs_step that tests for the goal after the duplicate test   *)
(* and visited.add, not before them.                                       *)
dfs_step_GoalTestAfterAdd ==
    /\ pc = "dfs_loop"
    /\ stack # <<>>
    /\ LET top == stack[Len(stack)]
           current_state == top.state
           path == top.path
           popped == SubSeq(stack, 1, Len(stack) - 1)
           state_hash == get_state(current_state)
       IN  /\ nodes_visited' = nodes_visited + 1
           /\ visited_states' = Append(visited_states, current_state)
           /\ IF state_hash \in visited
              THEN /\ stack' = popped
                   /\ UNCHANGED <<visited, solution, pc>>
              ELSE IF AllReached(current_state)
              THEN /\ visited' = visited \cup {state_hash}
                   /\ solution' = Found(Append(path, current_state))
                   /\ pc' = "done"
                   /\ stack' = popped
              ELSE /\ visited' = visited \cup {state_hash}
                   /\ stack' = popped \o Children(current_state, path)
                   /\ UNCHANGED <<solution, pc>>
    /\ UNCHANGED <<board, state, algorithm, queue, priority_queue>>

(* Game.dfs, one iteration of the while loop (lines 84-100).               *)
dfs_step ==
    /\ pc = "dfs_loop"
    /\ stack # <<>>
    /\ LET top == stack[Len(stack)]
           current_state == top.state
           path == top.path
           popped == SubSeq(stack, 1, Len(stack) - 1)
           state_hash == get_state(current_state)
       IN  /\ nodes_visited' = nodes_visited + 1
           /\ visited_states' = Append(visited_states, current_state)
           /\ IF AllReached(current_state)
              THEN /\ solution' = Found(Append(path, current_state))
                   /\ pc' = "done"
                   /\ stack' = popped
                   /\ UNCHANGED visited
              ELSE IF state_hash \in visited
              THEN /\ stack' = popped
                   /\ UNCHANGED <<visited, solution, pc>>
              ELSE /\ visited' = visited \cup {state_hash}
                   /\ stack' = popped \o Children(current_state, path)
                   /\ UNCHANGED <<solution, pc>>
    /\ UNCHANGED <<board, state, algorithm, queue, priority_queue>>

(* Game.dfs, line 102: the frontier is empty.                              *)
dfs_exhausted ==
    /\ pc = "dfs_loop"
    /\ stack = <<>>
    /\ solution' = None
    /\ pc' = "done"
    /\ UNCHANGED <<board, state, algorithm, stack, queue, priority_queue, visited,
                   visited_states, nodes_visited>>

(* Game.bfs, lines 105-109.                                                *)
bfs_init ==
    /\ pc = "bfs"
    /\ queue' = << [state |-> state, path |-> <<>>] >>
    /\ visited' = {}
    /\ visited_states' = <<>>
    /\ nodes_visited' = 0
    /\ pc' = "bfs_loop"
    /\ UNCHANGED <<board, state, algorithm, stack, priority_queue, solution>>

(* Variant of bfs_step that counts and records a pop only when the popped  *)
(* state is expanded.                                                      *)
bfs_step_CountsExpansions ==
    /\ pc = "bfs_loop"
    /\ queue # <<>>
    /\ LET current_state == Head(queue).state
           path == Head(queue).path
           popped == Tail(queue)
           state_hash == get_state(current_state)
       IN  IF AllReached(current_state)
           THEN /\ solution' = Found(Append(path, current_state))
                /\ pc' = "done"
                /\ queue' = popped
                /\ UNCHANGED <<visited, nodes_visited, visited_states>>
           ELSE IF state_hash \in visited
           THEN /\ queue' = popped
                /\ UNCHANGED <<visited, solution, pc, nodes_visited,
                               visited_states>>
           ELSE /\ visited' = visited \cup {state_hash}
                /\ nodes_visited' = nodes_visited + 1
                /\ visited_states' = Append(visited_states, current_state)
                /\ queue' = popped \o Children(current_state, path)
                /\ UNCHANGED <<solution, pc>>
    /\ UNCHANGED <<board, state, algorithm, stack, priority_queue>>

(* Variant of bfs_step without the test of lines 120-121: a popped state  *)
(* whose key is already in visited is expanded again.                      *)
bfs_step_NoDuplicateTest ==
    /\ pc = "bfs_loop"
    /\ queue # <<>>
    /\ LET current_state == Head(queue).state
           path == Head(queue).path
           popped == Tail(queue)
           state_hash == get_state(current_state)
       IN  /\ nodes_visited' = nodes_visited + 1
           /\ visited_states' = Append(visited_states, current_state)
           /\ IF AllReached(current_state)
              THEN /\ solution' = Found(Append(path, current_state))
                   /\ pc' = "done"
                   /\ queue' = popped
                   /\ UNCHANGED visited
              ELSE /\ visited' = visited \cup {state_hash}
                   /\ queue' = popped \o Children(current_state, path)
                   /\ UNCHANGED <<solution, pc>>
    /\ UNCHANGED <<board, state, algorithm, stack, priority_queue>>

(* Game.bfs, one iteration of the while loop (lines 111-127).              *)
bfs_step ==
    /\ pc = "bfs_loop"
    /\ queue # <<>>
    /\ LET current_state == Head(queue).state
           path == Head(queue).path
           popped == Tail(queue)
           state_hash == get_state(current_state)
       IN  /\ nodes_visited' = nodes_visited + 1
           /\ visited_states' = Append(visited_states, current_state)
           /\ IF AllReached(current_state)
              THEN /\ solution' = Found(Append(path, current_state))
                   /\ pc' = "done"
                   /\ queue' = popped
                   /\ UNCHANGED visited
              ELSE IF state_hash \in visited
              THEN /\ queue' = popped
                   /\ UNCHANGED <<visited, solution, pc>>
              ELSE /\ visited' = visited \cup {state_hash}
                   /\ queue' = popped \o Children(current_state, path)
                   /\ UNCHANGED <<solution, pc>>
    /\ UNCHANGED <<board, state, algorithm, stack, priority_queue>>

(* Game.bfs, line 129.                                                     *)
bfs_exhausted ==
    /\ pc = "bfs_loop"
    /\ queue = <<>>
    /\ solution' = None
    /\ pc' = "done"
    /\ UNCHANGED <<board, state, algorithm, stack, queue, priority_queue, visited,
                   visited_states, nodes_visited>>

(* Game.ucs, lines 132-136.                                                *)
ucs_init ==
    /\ pc = "ucs"
    /\ priority_queue' = << [cost |-> 0, state |-> state, path |-> <<>>] >>
    /\ visited' = {}
    /\ visited_states' = <<>>
    /\ nodes_visited' = 0
    /\ pc' = "ucs_loop"
    /\ UNCHANGED <<board, state, algorithm, stack, queue, solution>>

(* Game.ucs, lines 153-156: push the successors whose key is not in        *)
(* visited, one heappush each, in order.                                   *)
RECURSIVE PushUnvisited(_, _, _, _, _, _)
PushUnvisited(heap, succ, k, seen, cost, path) ==
    IF k > Len(succ) THEN heap
    ELSE IF get_state(succ[k]) \notin seen
         THEN PushUnvisited(
                  heappush(heap, [cost |-> cost, state |-> succ[k], path |-> path]),
                  succ, k + 1, seen, cost, path)
         ELSE PushUnvisited(heap, succ, k + 1, seen, cost, path)

(* Game.ucs, one iteration of the while loop (lines 138-156).              *)
ucs_step ==
    /\ pc = "ucs_loop"
    /\ priority_queue # <<>>
    /\ LET item == heappop_item(priority_queue)
           popped == heappop_rest(priority_queue)
           cost == item.cost
           current_state == item.state
           path == item.path
           state_hash == get_state(current_state)
       IN  /\ nodes_visited' = nodes_visited + 1
           /\ visited_states' = Append(visited_states, current_state)
           /\ IF AllReached(current_state)
              THEN /\ solution' = Found(Append(path, current_state))
                   /\ pc' = "done"
                   /\ priority_queue' = popped
                   /\ UNCHANGED visited
              ELSE IF state_hash \in visited
              THEN /\ priority_queue' = popped
                   /\ UNCHANGED <<visited, solution, pc>>
              ELSE /\ visited' = visited \cup {state_hash}
                   /\ priority_queue' =
                          PushUnvisited(popped, Expand(current_state), 1,
                                        visited \cup {state_hash}, cost + 1,
                                        Append(path, current_state))
                   /\ UNCHANGED <<solution, pc>>
    /\ UNCHANGED <<board, state, algorithm, stack, queue>>

(* Game.ucs, line 158.                                                     *)
ucs_exhausted ==
    /\ pc = "ucs_loop"
    /\ priority_queue = <<>>
    /\ solution' = None
    /\ pc' = "done"
    /\ UNCHANGED <<board, state, algorithm, stack, queue, priority_queue, visited,
                   visited_states, nodes_visited>>

(* GameUI.play_manually, one iteration of its loop: a key is read, the     *)
(* first successor in that direction replaces Game.state, and the loop     *)
(* ends when the game is won.  Indexing an empty successor list raises     *)
(* IndexError, which nothing catches.                                      *)
KeyDirection(move) ==
    CASE move = "W" -> <<-1, 0>>
      [] move = "S" -> <<1, 0>>
      [] move = "A" -> <<0, -1>>
      [] move = "D" -> <<0, 1>>

play_manually ==
    /\ pc = "play_manually"
    /\ \E move \in {"W", "S", "A", "D", "other"} :
          IF move = "other"
          THEN UNCHANGED <<state, pc>>
          ELSE LET d == KeyDirection(move)
                   new_states == simulate_move(state, d[1], d[2])
               IN  IF new_states = <<>>
                   THEN /\ pc' = "IndexError"
                        /\ UNCHANGED state
                   ELSE /\ state' = new_states[1]
                        /\ pc' = IF AllReached(new_states[1]) THEN "done"
                                 ELSE "play_manually"
    /\ UNCHANGED <<board, algorithm, search>>

Next ==
    \/ run
    \/ dfs_init \/ dfs_step \/ dfs_exhausted
    \/ bfs_init \/ bfs_step \/ bfs_exhausted
    \/ ucs_init \/ ucs_step \/ ucs_exhausted
    \/ play_manually

Spec == Init /\ [][Next]_vars


----------------------------------------------------------------------------
(* The state graph of the game, computed apart from the strategies: the    *)
(* snapshots one simulate_move call yields, and what repeated calls reach. *)

DirSet == {<<-1, 0>>, <<1, 0>>, <<0, -1>>, <<0, 1>>}

Range(seq) == {seq[k] : k \in 1 .. Len(seq)}

Successors(s) == UNION {Range(simulate_move(s, d[1], d[2])) : d \in DirSet}

RECURSIVE ReachFrom(_, _)
ReachFrom(seen, frontier) ==
    IF frontier = {} THEN seen
    ELSE LET new == (UNION {Successors(s) : s \in frontier}) \ seen
         IN  ReachFrom(seen \cup new, new)

\* every snapshot reachable from Game.state
Reachable == ReachFrom({state}, {state})

WonReachable == \E s \in Reachable : AllReached(s)

\* the least number of transitions from Game.state to a won snapshot
RECURSIVE DistFrom(_, _, _)
DistFrom(seen, frontier, d) ==
    IF \E s \in frontier : AllReached(s) THEN d
    ELSE IF frontier = {} THEN -1
    ELSE LET new == (UNION {Successors(s) : s \in frontier}) \ seen
         IN  DistFrom(seen \cup new, new, d + 1)

MinDist == DistFrom({state}, {state}, 0)

Searching == algorithm \in {"DFS", "BFS", "UCS"}
Returned == Searching /\ pc = "done"

----------------------------------------------------------------------------
(* C1: whenever dfs, bfs or ucs returns a path, the path starts at the     *)
(* initial state, ends in a snapshot with every reached_goal flag true,    *)
(* and each snapshot of it is a simulate_move successor of the one before  *)
(* it for one of the four directions.                                      *)
C1_SolutionIsValidPath ==
    (Returned /\ solution.found) =>
        LET p == solution.path
        IN  /\ Len(p) >= 1
            /\ p[1] = state
            /\ AllReached(p[Len(p)])
            /\ \A k \in 1 .. Len(p) - 1 : p[k + 1] \in Successors(p[k])

C1_Witness ==
    /\ Returned
    /\ algorithm = "DFS"
    /\ solution.found
    /\ Len(solution.path) >= 3
    /\ Len(state.players) = 2

(* C2: a strategy returns "no solution" exactly when no won snapshot is    *)
(* reachable from the initial state.                                       *)
C2_NoneIffUnreachable ==
    Returned => ((solution = None) <=> ~ WonReachable)

C2_Witness ==
    /\ Returned
    /\ algorithm = "UCS"
    /\ solution = None
    /\ Cardinality(visited) >= 4

\* the canonical keys a board admits: finitely many, (2 * free cells) ^ N
IsBoardKey(key) ==
    /\ Len(key[1]) = Len(state.players)
    /\ Len(key[2]) = Len(state.players)
    /\ \A i \in 1 .. Len(key[1]) :
          key[1][i] \in Cells(rows, cols) \ walls /\ key[2][i] \in BOOLEAN

(* C3: on every board each strategy terminates.  Every iteration of a      *)
(* strategy's loop pops one frontier entry, and the number of pops of a    *)
(* run is bounded: one pop of the initial state, plus one pop for each     *)
(* successor (at most N per direction) of each expanded key, and the keys  *)
(* expanded are keys of the finite board.  A loop whose iterations are     *)
(* bounded ends: with an empty frontier or at the pop of a won snapshot.   *)
C3_Terminates ==
    Searching =>
        /\ nodes_visited <=
               1 + Len(Directions) * Len(state.players) * Cardinality(visited)
        /\ \A key \in visited : IsBoardKey(key)

C3_Witness ==
    /\ Returned
    /\ algorithm = "DFS"
    /\ stack = <<>>
    /\ nodes_visited > Cardinality(visited) + 1

(* C4: the solution ucs returns has the least possible number of           *)
(* transitions, and so has the solution bfs returns on the same board.     *)
C4_UcsAndBfsOptimal ==
    (Returned /\ algorithm \in {"UCS", "BFS"} /\ solution.found) =>
        Len(solution.path) - 1 = MinDist

C4_Witness ==
    /\ Returned
    /\ algorithm = "UCS"
    /\ solution.found
    /\ Len(solution.path) >= 4
    /\ nodes_visited > Cardinality(visited) + 1

----------------------------------------------------------------------------
(* The snapshots that enter the program's collections.  A snapshot enters  *)
(* a frontier as the state of an entry; it enters the trace, and then the  *)
(* paths of the entries pushed for its successors, when it is popped.  So  *)
(* every snapshot of a frontier, a trace or a path is, at some point of    *)
(* the run, the state of a frontier entry or the last entry of the trace.  *)
FrontierStates ==
    {e.state : e \in Range(stack)} \cup {e.state : e \in Range(queue)}
    \cup {e.state : e \in Range(priority_queue)}

(* The paths, each with its end, of the entry each frontier pops next and  *)
(* of the returned solution.                                               *)
Chains ==
    (IF stack = <<>> THEN {}
     ELSE {Append(stack[Len(stack)].path, stack[Len(stack)].state)})
    \cup (IF queue = <<>> THEN {}
          ELSE {Append(Head(queue).path, Head(queue).state)})
    \cup (IF priority_queue = <<>> THEN {}
          ELSE {Append(priority_queue[1].path, priority_queue[1].state)})
    \cup {solution.path}

\* the snapshots simulate_move is called on: Game.state in manual play, the
\* snapshot popped last in a strategy
Latest ==
    {state} \cup (IF visited_states = <<>> THEN {}
                  ELSE {visited_states[Len(visited_states)]})

OnFreeCells(s) ==
    \A i \in 1 .. Len(s.players) : s.players[i] \in Cells(rows, cols) \ walls

(* C5: every player of every snapshot that enters a frontier, the trace or *)
(* a path, and of every simulate_move successor of the snapshot being      *)
(* expanded, is inside the grid and not on a wall (the initial players     *)
(* are).                                                                   *)
C5_InBoundsOffWalls ==
    /\ \A s \in FrontierStates \cup Latest : OnFreeCells(s)
    /\ \A c \in Chains : \A k \in 1 .. Len(c) : OnFreeCells(c[k])
    /\ \A s \in Latest : \A t \in Successors(s) : OnFreeCells(t)

Neighbours(c) ==
    {<<c[1] + d[1], c[2] + d[2]>> : d \in DirSet}

C5_Witness ==
    /\ Searching
    /\ \E s \in Range(visited_states) : \E i \in 1 .. Len(s.players) :
          /\ s.players[i] # state.players[i]
          /\ Neighbours(s.players[i]) \cap walls # {}
          /\ Neighbours(s.players[i]) \ Cells(rows, cols) # {}

Frozen(s, t) ==
    \A i \in 1 .. Len(s.players) :
        s.reached_goal[i] => (t.players[i] = s.players[i] /\ t.reached_goal[i])

(* C6: a player whose reached_goal flag is true keeps its position and its *)
(* flag in every simulate_move successor of the snapshot being expanded,   *)
(* and so in every later snapshot of every path.                           *)
C6_FrozenGoal ==
    /\ \A s \in Latest : \A t \in Successors(s) : Frozen(s, t)
    /\ \A c \in Chains : \A j, k \in 1 .. Len(c) : j < k => Frozen(c[j], c[k])

C6_Witness ==
    \E c \in Chains : \E j, k \in 1 .. Len(c) :
        /\ j + 1 < k
        /\ \E i \in 1 .. Len(state.players) : c[j].reached_goal[i]
        /\ c[k].players # c[j].players

----------------------------------------------------------------------------
OnScenarioA ==
    /\ rows = ScenarioA.rows
    /\ cols = ScenarioA.cols
    /\ walls = ScenarioA.walls
    /\ goals = ScenarioA.goals
    /\ Len(state.players) = 1

ScenarioA_Start == [players |-> ScenarioA.players, reached_goal |-> <<FALSE>>]
ScenarioA_Won == [players |-> ScenarioA.goals, reached_goal |-> <<TRUE>>]

(* C7 as stated: on Scenario A bfs returns the two-snapshot path from the  *)
(* initial state to the won state and reports nodes_visited = 1.           *)
C7_ScenarioA_OnePop ==
    (OnScenarioA /\ algorithm = "BFS" /\ pc = "done") =>
        /\ solution = Found(<<ScenarioA_Start, ScenarioA_Won>>)
        /\ nodes_visited = 1

(* C7 as amended: on Scenario A bfs returns the two-snapshot path from the *)
(* initial state to the won state and reports nodes_visited = 3: it pops   *)
(* the initial state, the successor of the slide down, and the won state.  *)
C7_ScenarioA_ThreePops ==
    (OnScenarioA /\ algorithm = "BFS" /\ pc = "done") =>
        /\ solution = Found(<<ScenarioA_Start, ScenarioA_Won>>)
        /\ nodes_visited = 3
        /\ visited_states =
              <<ScenarioA_Start,
                [players |-> << <<2, 0>> >>, reached_goal |-> <<FALSE>>],
                ScenarioA_Won>>

C7_Witness == OnScenarioA /\ algorithm = "BFS" /\ pc = "done"

----------------------------------------------------------------------------
(* The Move Simulator as the sequencing rule states it: the validity of a  *)
(* cell for player i is decided on the working copy, where the moves of    *)
(* the players processed earlier in the same call are already applied.     *)
ValidInWorkingCopy(w, row, col, i) ==
    /\ <<row, col>> \in Cells(rows, cols) \ walls
    /\ \A j \in 1 .. Len(w.players) : j # i => w.players[j] # <<row, col>>

RECURSIVE RuleSlide(_, _, _, _, _)
RuleSlide(w, i, cur, r_row, c_col) ==
    LET next == <<cur[1] + r_row, cur[2] + c_col>>
    IN  IF ~ ValidInWorkingCopy(w, next[1], next[2], i)
        THEN [pos |-> cur, hit |-> FALSE]
        ELSE IF next = goals[i] THEN [pos |-> next, hit |-> TRUE]
        ELSE RuleSlide(w, i, next, r_row, c_col)

RECURSIVE RuleLoop(_, _, _, _, _)
RuleLoop(w, i, r_row, c_col, out) ==
    IF i > Len(w.players) THEN out
    ELSE IF w.reached_goal[i] THEN RuleLoop(w, i + 1, r_row, c_col, out)
    ELSE LET res == RuleSlide(w, i, w.players[i], r_row, c_col)
             moved == [w EXCEPT !.players[i] = res.pos,
                                !.reached_goal[i] = res.hit]
         IN  IF res.pos # w.players[i]
             THEN RuleLoop(moved, i + 1, r_row, c_col, Append(out, moved))
             ELSE RuleLoop(w, i + 1, r_row, c_col, out)

(* C8: within one simulate_move call the collision checks of a later       *)
(* player see the earlier players where their moves of this call put them: *)
(* the successors are those of the sequencing rule.                        *)
C8_SequencingRule ==
    \A s \in Latest : \A d \in DirSet :
        simulate_move(s, d[1], d[2]) = RuleLoop(s, 1, d[1], d[2], <<>>)

----------------------------------------------------------------------------
Keys(S) == {get_state(s) : s \in S}

(* C9 as stated: where no won snapshot is reachable every strategy returns *)
(* "no solution", every trace holds every reachable snapshot, and the ucs  *)
(* trace holds each of them once.                                          *)
C9_UcsTraceWithoutRepeats ==
    (Returned /\ ~ WonReachable) =>
        /\ solution = None
        /\ Keys(Range(visited_states)) = Keys(Reachable)
        /\ algorithm = "UCS" => Len(visited_states) = Cardinality(Reachable)

(* C9 as amended: where no won snapshot is reachable every strategy        *)
(* returns "no solution"; the trace of each of dfs, bfs and ucs holds      *)
(* every reachable snapshot at least once, and each reachable snapshot was *)
(* expanded, so that every further entry of a trace is a pop of a snapshot *)
(* expanded before.                                                        *)
C9_TracesCoverReachable ==
    (Returned /\ ~ WonReachable) =>
        /\ solution = None
        /\ Keys(Range(visited_states)) = Keys(Reachable)
        /\ visited = Keys(Reachable)

C9_Witness ==
    /\ Returned
    /\ ~ WonReachable
    /\ algorithm = "UCS"
    /\ Len(visited_states) > Cardinality(Reachable)

----------------------------------------------------------------------------
\* a frontier entry is about to be popped, and the snapshot it holds
Popping ==
    \/ pc = "dfs_loop" /\ stack # <<>>
    \/ pc = "bfs_loop" /\ queue # <<>>
    \/ pc = "ucs_loop" /\ priority_queue # <<>>

PoppedNext ==
    CASE pc = "dfs_loop" -> stack[Len(stack)].state
      [] pc = "bfs_loop" -> Head(queue).state
      [] pc = "ucs_loop" -> priority_queue[1].state

(* C10: nodes_visited is the length of the trace at every point of a run,  *)
(* and every pop, of a won, a duplicate or a fresh snapshot, adds one to   *)
(* nodes_visited and appends the popped snapshot to the trace; no other    *)
(* step changes either.                                                    *)
C10_PopCount ==
    /\ [](nodes_visited = Len(visited_states))
    /\ [][IF Popping
          THEN /\ nodes_visited' = nodes_visited + 1
               /\ visited_states' = Append(visited_states, PoppedNext)
          ELSE UNCHANGED <<nodes_visited, visited_states>>]_vars

C10_Witness ==
    /\ Returned
    /\ solution.found
    /\ \E j, k \in 1 .. Len(visited_states) :
          j < k /\ visited_states[j] = visited_states[k]

----------------------------------------------------------------------------
(* C11: on the board of Scenario A each of dfs, bfs and ucs returns the    *)
(* solution of one transition, the two snapshots from the initial state to *)
(* the won state, so the three report the same solution length.            *)
C11_ScenarioA_SameLength ==
    (OnScenarioA /\ Returned) =>
        /\ solution.found
        /\ Len(solution.path) = 2
        /\ solution.path = <<ScenarioA_Start, ScenarioA_Won>>

C11_Witness ==
    /\ OnScenarioA
    /\ Returned
    /\ algorithm = "DFS"
    /\ nodes_visited = 2

----------------------------------------------------------------------------
\* the player whose position differs between two consecutive working copies
Mover(w, t) == CHOOSE i \in 1 .. Len(w.players) : w.players[i] # t.players[i]

\* the cell n unit steps from cell c in direction d
StepFrom(c, d, n) == <<c[1] + n * d[1], c[2] + n * d[2]>>

\* player i went from its cell in w to its cell in t by unit steps in
\* direction d through cells valid in w, not past its goal, and stopped on
\* its goal with the flag set or in front of a cell that is not valid in w
SlidUntilStop(w, t, i, d) ==
    \E n \in 1 .. (rows + cols) :
        /\ t.players[i] = StepFrom(w.players[i], d, n)
        /\ \A k \in 1 .. n :
               LET c == StepFrom(w.players[i], d, k)
               IN  ValidInWorkingCopy(w, c[1], c[2], i)
        /\ \A k \in 1 .. (n - 1) : StepFrom(w.players[i], d, k) # goals[i]
        /\ IF t.players[i] = goals[i]
           THEN t.reached_goal[i]
           ELSE LET c == StepFrom(w.players[i], d, n + 1)
                IN  /\ ~ t.reached_goal[i]
                    /\ ~ ValidInWorkingCopy(w, c[1], c[2], i)

(* C12: every player simulate_move moves slides by one or more unit steps  *)
(* through cells that are in bounds, not walls and not occupied by another *)
(* player, and stops on the first cell that is its own goal (flag set) or  *)
(* whose next cell is out of bounds, a wall or occupied by another player. *)
C12_SlideUntilStop ==
    \A s \in Latest : \A d \in DirSet :
        LET succ == simulate_move(s, d[1], d[2])
        IN  \A k \in 1 .. Len(succ) :
                LET w == IF k = 1 THEN s ELSE succ[k - 1]
                IN  SlidUntilStop(w, succ[k], Mover(w, succ[k]), d)

----------------------------------------------------------------------------
\* unfinished player i of working copy w has a valid next cell in direction d
CanMove(w, i, d) ==
    /\ ~ w.reached_goal[i]
    /\ LET c == StepFrom(w.players[i], d, 1)
       IN  ValidInWorkingCopy(w, c[1], c[2], i)

\* the index of the player that made successor k of succ (0 before the
\* first), and the working copy successor k was made from
MoverOf(s, succ, k) ==
    IF k = 0 THEN 0
    ELSE Mover(IF k = 1 THEN s ELSE succ[k - 1], succ[k])

(* C13: simulate_move(s, d) returns one successor per unfinished player    *)
(* that can move in direction d, in player-index order, at most one per    *)
(* player and none when no player can move; successor k holds the moves of *)
(* the first k moving players and leaves every other player's position and *)
(* flag as in s.                                                           *)
C13_CumulativeSuccessors ==
    \A s \in Latest : \A d \in DirSet :
        LET succ == simulate_move(s, d[1], d[2])
            N == Len(s.players)
            w(k) == IF k = 0 THEN s ELSE succ[k]
        IN  /\ Len(succ) <= N
            /\ \A k \in 1 .. Len(succ) :
                   LET i == MoverOf(s, succ, k)
                   IN  /\ MoverOf(s, succ, k - 1) < i
                       /\ CanMove(w(k - 1), i, d)
                       /\ \A j \in 1 .. N :
                              j # i => /\ succ[k].players[j] = w(k - 1).players[j]
                                       /\ succ[k].reached_goal[j]
                                              = w(k - 1).reached_goal[j]
            /\ \A j \in 1 .. N :
                   \* a player that made no successor could not move when
                   \* its turn came
                   (\A k \in 1 .. Len(succ) : MoverOf(s, succ, k) # j) =>
                       LET before == {k \in 1 .. Len(succ) :
                                          MoverOf(s, succ, k) < j}
                       IN  ~ CanMove(w(Cardinality(before)), j, d)

----------------------------------------------------------------------------
\* the number of entries on the frontier of the running strategy
FrontierLen == Len(stack) + Len(queue) + Len(priority_queue)

(* C14: in a run a key is expanded at most once.  A popped snapshot that   *)
(* is not won and whose key is in visited is discarded: nothing is pushed  *)
(* and visited stays as it is.  A popped snapshot that is not won and      *)
(* whose key is new is expanded and its key enters visited, which never    *)
(* loses a key, so the keys in visited are those of the expanded snapshots *)
(* of the trace and they are at most as many as the distinct reachable     *)
(* states.                                                                 *)
C14_ExpandedOnce ==
    /\ [](Searching =>
            visited = Keys({s \in Range(visited_states) : ~ AllReached(s)}))
    /\ [](Returned => Cardinality(visited) <= Cardinality(Keys(Reachable)))
    /\ [][IF Popping /\ ~ AllReached(PoppedNext)
          THEN IF get_state(PoppedNext) \in visited
               THEN /\ FrontierLen' = FrontierLen - 1
                    /\ visited' = visited
               ELSE /\ visited' = visited \cup {get_state(PoppedNext)}
                    /\ Cardinality(visited') = Cardinality(visited) + 1
          ELSE pc \in {"dfs_loop", "bfs_loop", "ucs_loop"} => visited' = visited]_vars

C14_Witness ==
    /\ Searching
    /\ \E p, q \in 1 .. Len(visited_states) :
           /\ p < q
           /\ ~ AllReached(visited_states[p])
           /\ get_state(visited_states[p]) = get_state(visited_states[q])
    /\ Cardinality(visited) >= 2

----------------------------------------------------------------------------
(* C15: every entry of the ucs frontier has the length of its path as its  *)
(* cost; the entry popped next has the least cost on the frontier, and no  *)
(* entry of the same cost has fewer reached flags than it; the costs of    *)
(* the popped entries never decrease.                                      *)
C15_UcsPopOrder ==
    /\ [](\A k \in 1 .. Len(priority_queue) :
              priority_queue[k].cost = Len(priority_queue[k].path))
    /\ [](\A k \in 2 .. Len(priority_queue) :
              LET top == priority_queue[1]
                  e == priority_queue[k]
              IN  \/ e.cost > top.cost
                  \/ /\ e.cost = top.cost
                     /\ CountTrue(e.state.reached_goal)
                            >= CountTrue(top.state.reached_goal))
    /\ [][(pc = "ucs_loop" /\ priority_queue # <<>> /\ priority_queue' # <<>>)
              => priority_queue'[1].cost >= priority_queue[1].cost]_vars

C15_Witness ==
    /\ pc = "ucs_loop"
    /\ nodes_visited >= 2
    /\ \E j, k \in 1 .. Len(priority_queue) :
           /\ priority_queue[j].cost = priority_queue[k].cost
           /\ CountTrue(priority_queue[j].state.reached_goal)
                  < CountTrue(priority_queue[k].state.reached_goal)

----------------------------------------------------------------------------
\* every player of s whose flag is set stands on its own goal
FlaggedOnGoal(s) ==
    \A i \in 1 .. Len(s.players) : s.reached_goal[i] => s.players[i] = goals[i]

(* C16: in every state of a run (the game's state, the snapshots on the    *)
(* frontiers, the popped snapshot and its successors, the snapshots of a   *)
(* returned path) a player whose reached flag is true is on its own goal.  *)
C16_FlagImpliesOnGoal ==
    /\ \A s \in FrontierStates \cup Latest : FlaggedOnGoal(s)
    /\ \A s \in Latest : \A t \in Successors(s) : FlaggedOnGoal(t)
    /\ \A s \in Range(solution.path) : FlaggedOnGoal(s)

C16_Witness ==
    /\ Searching
    /\ \E s \in FrontierStates :
           /\ \E i \in 1 .. Len(s.players) : s.reached_goal[i]
           /\ \E i \in 1 .. Len(s.players) :
                  ~ s.reached_goal[i] /\ s.players[i] # state.players[i]
           /\ ~ AllReached(s)

----------------------------------------------------------------------------
(* C17: the players of the initial state being on pairwise distinct cells, *)
(* no two players share a cell in any state a run produces: the snapshots  *)
(* on the frontiers, the popped snapshot and its successors.               *)
C17_NoOverlap ==
    Injective(state.players) =>
        /\ \A s \in FrontierStates \cup Latest : Injective(s.players)
        /\ \A s \in Latest : \A t \in Successors(s) : Injective(t.players)

----------------------------------------------------------------------------
\* a canonical key <<players, reached_goal>> all of whose flags are true
WonKey(key) == \A i \in 1 .. Len(key[2]) : key[2][i]

(* C18: visited never holds the key of a won state, and a won snapshot is  *)
(* in the trace at most once, as its last element, in a run that has       *)
(* returned a solution ending in that snapshot: the run returns at the     *)
(* first pop of a won state.                                               *)
C18_WonOnlyLast ==
    Searching =>
        /\ \A key \in visited : ~ WonKey(key)
        /\ \A p \in 1 .. Len(visited_states) :
               AllReached(visited_states[p]) =>
                   /\ p = Len(visited_states)
                   /\ Returned
                   /\ solution.found
                   /\ solution.path[Len(solution.path)] = visited_states[p]

C18_Witness ==
    /\ Returned
    /\ solution.found
    /\ Cardinality(visited) >= 2
    /\ Len(visited_states) > Cardinality(visited) + 1
    /\ AllReached(visited_states[Len(visited_states)])

----------------------------------------------------------------------------
(* C19: in every successor simulate_move returns, a player the call has    *)
(* moved is on its own goal exactly when its flag is true; the flags of    *)
(* the initial state are all false, whether or not a player starts on its  *)
(* goal, so is_won is false for the initial state even when every player   *)
(* starts on its goal.                                                     *)
C19_MovedOnGoalIffFlag ==
    /\ \A s \in Latest : \A d \in DirSet :
           LET succ == simulate_move(s, d[1], d[2])
           IN  \A k \in 1 .. Len(succ) : \A i \in 1 .. Len(s.players) :
                   succ[k].players[i] # s.players[i] =>
                       (succ[k].players[i] = goals[i] <=> succ[k].reached_goal[i])
    /\ pc = "run" =>
           /\ \A i \in 1 .. Len(state.players) : ~ state.reached_goal[i]
           /\ ~ is_won

C19_Witness ==
    /\ state.players = goals
    /\ ~ is_won
    /\ Searching
    /\ \E s \in FrontierStates : \E i \in 1 .. Len(s.players) :
           /\ s.reached_goal[i]
           /\ s.players[i] = state.players[i]

----------------------------------------------------------------------------
(* C20: a step of manual play either puts the first successor of the       *)
(* pressed direction in place of the game's state, or, when simulate_move  *)
(* returns the empty list, leaves the state as it is; in both cases play   *)
(* goes on or ends with a win, and no fault is raised.                     *)
C20_ManualPlayNoFault ==
    [][pc = "play_manually" =>
           /\ pc' \in {"play_manually", "done"}
           /\ \/ state' = state
              \/ \E d \in DirSet :
                     LET new_states == simulate_move(state, d[1], d[2])
                     IN  new_states # <<>> /\ state' = new_states[1]]_vars

====
